---- MODULE Spec2Model ----
(***************************************************************************)
(* Fact store of the 23 bot: the storage adapter (adapter.py) in its two   *)
(* variants, SQLite3Adapter and MySQLAdapter.  The bot is constructed with *)
(* one of them, opens its store empty and calls its operations.            *)
(*                                                                         *)
(* A store is the three tables the operations use (categories, facts,      *)
(* entries) and the AUTOINCREMENT counter of each.  Fact texts are         *)
(* sequences of one-character strings, category names are strings.  Ids    *)
(* are only ever compared for order, so the gaps a failed INSERT leaves in *)
(* a MySQL AUTO_INCREMENT counter are not kept.                            *)
(*                                                                         *)
(* The name columns are created without a collation, so names are compared *)
(* the way each engine compares by default: byte by byte in SQLite, without*)
(* regard to case in MySQL.  Spec makes the bot's calls with names that    *)
(* differ by more than case, SpecByCase with names that differ only in     *)
(* case.                                                                   *)
(***************************************************************************)
EXTENDS Integers, Sequences, FiniteSets, TLC

\* ------------------------------------------------------------------ bounds
MaxRows == 5          \* rows the three tables hand an id to, in all

\* ------------------------------------------------------------------ inputs
CategoryNames == {"A", "B"}
FactTexts == {<<"a">>, <<"b", "a">>}
Patterns == {<<"a">>, <<"A">>, <<"b">>}
None == -1            \* Python's None for the optional position

\* Category lists as long as there are names, repeats included; positions
\* up to one beyond the facts a category can hold.
MaxCategories == Cardinality(CategoryNames)
MaxPos == Cardinality(FactTexts) + 1
Positions == 0..MaxPos

CategoryLists == UNION {[1..n -> CategoryNames] : n \in 0..MaxCategories}

\* ------------------------------------------------------------- the schema
\* _create_database: the tables start empty, every counter at 0.  The name
\* columns are declared without a collation and take the engine's default:
\* SQLite's TEXT compares byte by byte (BINARY).
EmptyDb ==
  [categories |-> {}, facts |-> {}, entries |-> {},
   seq |-> [categories |-> 0, facts |-> 0, entries |-> 0],
   collate |-> "BINARY"]

Max(a, b) == IF a >= b THEN a ELSE b

Range(s) == {s[i] : i \in 1..Len(s)}

\* Rows of S as a sequence in ascending order of the integer field key.
RECURSIVE SortedBy(_, _)
SortedBy(S, key) ==
  IF S = {} THEN <<>>
  ELSE LET m == CHOOSE r \in S : \A q \in S : r[key] <= q[key]
       IN <<m>> \o SortedBy(S \ {m}, key)

Names(rows) == [i \in 1..Len(rows) |-> rows[i].name]

\* Lower-case folding of the ASCII letters the inputs use.
Fold(ch) == IF ch = "A" THEN "a" ELSE IF ch = "B" THEN "b" ELSE ch

Lower(s) == [i \in 1..Len(s) |-> Fold(s[i])]

\* name = ? on the name column of categories (names are one letter) and of
\* facts: under a case-insensitive collation letters that differ only in
\* case are equal, in comparisons and in UNIQUE indexes alike.
SameName(db, a, b) ==
  IF db.collate = "BINARY" THEN a = b ELSE Fold(a) = Fold(b)

SameText(db, a, b) ==
  IF db.collate = "BINARY" THEN a = b ELSE Lower(a) = Lower(b)

\* A statement's outcome: the error it raised ("" when none) and the store
\* it leaves.
Done(db) == [err |-> "", db |-> db]
Fail(e, db) == [err |-> e, db |-> db]

\* INSERT INTO categories(name) VALUES (?)  -- name is UNIQUE
InsertCategory(db, name) ==
  IF \E c \in db.categories : SameName(db, c.name, name)
  THEN Fail("IntegrityError", db)
  ELSE LET id == db.seq.categories + 1
       IN Done([db EXCEPT !.categories = @ \cup {[id |-> id, name |-> name]},
                          !.seq.categories = id])

\* The INSERT on a facts table whose name is not UNIQUE: a text already
\* stored gets a second row.
InsertFact_NoUnique(db, fact) ==
  LET id == db.seq.facts + 1
  IN Done([db EXCEPT !.facts = @ \cup {[id |-> id, name |-> fact]},
                     !.seq.facts = id])

\* INSERT INTO facts(name) VALUES (?)  -- name is UNIQUE
InsertFact(db, fact) ==
  IF \E f \in db.facts : SameText(db, f.name, fact)
  THEN Fail("IntegrityError", db)
  ELSE LET id == db.seq.facts + 1
       IN Done([db EXCEPT !.facts = @ \cup {[id |-> id, name |-> fact]},
                          !.seq.facts = id])

\* The INSERT on an entries table without UN_CATEGORY_FACT: a pair already
\* stored is stored again.
InsertEntry_NoUnique(db, fact, category) ==
  LET sel == {<<f.id, c.id>> :
                f \in {x \in db.facts : SameText(db, x.name, fact)},
                c \in {x \in db.categories : SameName(db, x.name, category)}}
  IN IF sel = {} THEN Done(db)
     ELSE LET p == CHOOSE x \in sel : TRUE
              id == db.seq.entries + 1
          IN Done([db EXCEPT
               !.entries = @ \cup {[id |-> id, category_id |-> p[2],
                                    fact_id |-> p[1]]},
               !.seq.entries = id])

\* INSERT INTO entries(fact_id, category_id) SELECT facts.id, categories.id
\* FROM facts, categories WHERE facts.name = ? AND categories.name = ?
\* -- (category_id, fact_id) is UNIQUE; names are unique, so the SELECT
\* yields at most one row.
InsertEntry(db, fact, category) ==
  LET sel == {<<f.id, c.id>> :
                f \in {x \in db.facts : SameText(db, x.name, fact)},
                c \in {x \in db.categories : SameName(db, x.name, category)}}
  IN IF sel = {} THEN Done(db)
     ELSE LET p == CHOOSE x \in sel : TRUE
              id == db.seq.entries + 1
          IN IF \E e \in db.entries : e.fact_id = p[1] /\ e.category_id = p[2]
             THEN Fail("IntegrityError", db)
             ELSE Done([db EXCEPT
                    !.entries = @ \cup {[id |-> id, category_id |-> p[2],
                                         fact_id |-> p[1]]},
                    !.seq.entries = id])

\* The loop "for category in categories: cursor.execute(INSERT INTO entries
\* ...)": stops at the first statement that raises, with the rows of the
\* earlier statements still inserted.
RECURSIVE InsertEntries(_, _, _)
InsertEntries(db, fact, categories) ==
  IF categories = <<>> THEN Done(db)
  ELSE LET r == InsertEntry(db, fact, Head(categories))
       IN IF r.err # "" THEN r
          ELSE InsertEntries(r.db, fact, Tail(categories))

\* The store without the trigger: no fact is ever deleted.
TG_DELETE_FACTS_Absent(db, deleted) == db

\* TRIGGER TG_DELETE_FACTS AFTER DELETE ON entries: for each deleted row,
\* when no entry with old.fact_id is left, the fact is deleted.
TG_DELETE_FACTS(db, deleted) ==
  [db EXCEPT !.facts =
     {f \in @ : ~ (/\ \E d \in deleted : d.fact_id = f.id
                   /\ ~ \E e \in db.entries : e.fact_id = f.id)}]

\* The DELETE without its condition on category_id: the fact leaves every
\* category.
DeleteEntry_Everywhere(db, fact, category) ==
  LET deleted == {e \in db.entries :
                    \E f \in db.facts :
                      SameText(db, f.name, fact) /\ f.id = e.fact_id}
  IN TG_DELETE_FACTS([db EXCEPT !.entries = @ \ deleted], deleted)

\* DELETE FROM entries WHERE fact_id = (SELECT id FROM facts WHERE name = ?)
\* AND category_id = (SELECT id FROM categories WHERE name = ?), the trigger
\* firing for each deleted row.
DeleteEntry(db, fact, category) ==
  LET deleted == {e \in db.entries :
                    /\ \E f \in db.facts :
                          SameText(db, f.name, fact) /\ f.id = e.fact_id
                    /\ \E c \in db.categories :
                          /\ SameName(db, c.name, category)
                          /\ c.id = e.category_id}
  IN TG_DELETE_FACTS([db EXCEPT !.entries = @ \ deleted], deleted)

\* DELETE FROM categories WHERE name = ?, with FK_ENTRY_CATEGORY ... ON
\* DELETE CASCADE on entries.  cascade: the engine enforces the foreign key;
\* trigger: the rows the cascade deletes fire TG_DELETE_FACTS.
DeleteCategory(db, category, cascade, trigger) ==
  LET gone == {c \in db.categories : SameName(db, c.name, category)}
      deleted == IF cascade
                 THEN {e \in db.entries :
                         \E c \in gone : c.id = e.category_id}
                 ELSE {}
      db1 == [db EXCEPT !.categories = @ \ gone, !.entries = @ \ deleted]
  IN IF trigger THEN TG_DELETE_FACTS(db1, deleted) ELSE db1

\* SELECT facts.name FROM facts, entries, categories WHERE categories.name
\* = ? AND categories.id = entries.category_id AND facts.id =
\* entries.fact_id: the joined rows.
ConsultRows(db, category) ==
  {[fact_id |-> f.id, entry_id |-> e.id, name |-> f.name] :
     <<f, e>> \in {p \in db.facts \X db.entries :
                     /\ p[1].id = p[2].fact_id
                     /\ \E c \in db.categories :
                           /\ SameName(db, c.name, category)
                           /\ c.id = p[2].category_id}}

\* The access paths an engine can walk for a query without ORDER BY; it
\* chooses one each time it executes the statement.  A query with ORDER BY
\* leaves it no choice.
Plans == {"index", "table"}
Ordered == "index"

\* The query without ORDER BY: the rows come in the order of the access
\* path the engine walks, the UNIQUE (category_id, fact_id) index of
\* entries (ascending fact id) or the entries table itself (ascending entry
\* id).
ConsultAll(db, category, plan) ==
  Names(SortedBy(ConsultRows(db, category),
                 IF plan = "index" THEN "fact_id" ELSE "entry_id"))

\* An OFFSET beyond the last row clamped to the last row.
ConsultAt_Clamped(db, category, offset) ==
  LET rows == Names(SortedBy(ConsultRows(db, category), "fact_id"))
      skip == Max(offset, 0)
  IN IF rows = <<>> THEN <<>>
     ELSE IF skip < Len(rows) THEN <<rows[skip + 1]>>
     ELSE <<rows[Len(rows)]>>

\* ... ORDER BY facts.id ASC LIMIT 1 OFFSET offset (SQLite reads a negative
\* OFFSET as 0).
ConsultAt(db, category, offset) ==
  LET rows == Names(SortedBy(ConsultRows(db, category), "fact_id"))
      skip == Max(offset, 0)
  IN IF skip < Len(rows) THEN <<rows[skip + 1]>> ELSE <<>>

\* LIKE comparing letters byte by byte.
RECURSIVE Like_CaseSensitive(_, _)
Like_CaseSensitive(s, p) ==
  IF p = <<>> THEN s = <<>>
  ELSE IF Head(p) = "%"
       THEN Like_CaseSensitive(s, Tail(p))
              \/ (s # <<>> /\ Like_CaseSensitive(Tail(s), p))
       ELSE /\ s # <<>>
            /\ (Head(p) = "_" \/ Head(p) = Head(s))
            /\ Like_CaseSensitive(Tail(s), Tail(p))

\* name LIKE pattern: % matches any run of characters, _ any one character,
\* letters match without regard to case (the default of both engines).
RECURSIVE Like(_, _)
Like(s, p) ==
  IF p = <<>> THEN s = <<>>
  ELSE IF Head(p) = "%"
       THEN Like(s, Tail(p)) \/ (s # <<>> /\ Like(Tail(s), p))
       ELSE /\ s # <<>>
            /\ (Head(p) = "_" \/ Fold(Head(p)) = Fold(Head(s)))
            /\ Like(Tail(s), Tail(p))

\* SELECT name FROM facts WHERE name LIKE ?  (rows in table order)
SearchRows(db, pattern) ==
  Names(SortedBy({f \in db.facts : Like(f.name, pattern)}, "id"))

\* SELECT name FROM categories  (rows in table order)
CategoryRows(db) == Names(SortedBy(db.categories, "id"))

\* What a call returns: kind is "ok" or the exception raised, rows the list
\* returned (empty for the operations that return nothing).  cursors counts
\* the cursors the call opened and had not closed when it returned.
Ok(rows) == [kind |-> "ok", rows |-> rows, cursors |-> 0]
Raise(e) == [kind |-> e, rows |-> <<>>, cursors |-> 0]

\* The same outcome of a call that left n more of its cursors open.
Unclosed(r, n) == [r EXCEPT !.cursors = @ + n]

\* What a method leaves and returns.
Ret(st, res) == [st |-> st, res |-> res]

\* ---------------------------------------------------------- SQLite3Adapter
\* In "with self._connection as cursor:" the name cursor is bound to the
\* connection itself: the methods open no cursor of their own, and the one
\* Connection.execute makes is dropped with the value of the call.
\* A block that commits whatever it executed, also when it raises.
With_NoRollback(before, r) == r.db

\* "with self._connection as cursor:" commits the block's statements when
\* the block ends normally and rolls all of them back when it raises.
With(before, r) == IF r.err = "" THEN r.db ELSE before

SQLite3Adapter__add_fact(db, fact) ==
  LET r == InsertFact(db, fact)
  IN [err |-> r.err, db |-> With(db, r)]

SQLite3Adapter_add_category(db, category) ==
  LET r == InsertCategory(db, category)
  IN IF r.err = "IntegrityError"
     THEN Ret(With(db, r), Raise("DuplicateException"))
     ELSE Ret(With(db, r), Ok(<<>>))

\* "for category in categories: try: self.add_category(category) except
\* DuplicateException: pass"
RECURSIVE SQLite3Adapter_add_categories(_, _)
SQLite3Adapter_add_categories(db, categories) ==
  IF categories = <<>> THEN db
  ELSE SQLite3Adapter_add_categories(
         SQLite3Adapter_add_category(db, Head(categories)).st,
         Tail(categories))

SQLite3Adapter_add_fact(db, fact, categories) ==
  LET db1 == SQLite3Adapter__add_fact(db, fact).db
      db2 == SQLite3Adapter_add_categories(db1, categories)
      r == InsertEntries(db2, fact, categories)
  IN IF r.err = "IntegrityError"
     THEN Ret(With(db2, r), Raise("DuplicateException"))
     ELSE Ret(With(db2, r), Ok(<<>>))

SQLite3Adapter_consult(db, category, fact_position, plan) ==
  IF fact_position # None
  THEN Ok(ConsultAt(db, category, fact_position - 1))
  ELSE Ok(ConsultAll(db, category, plan))

\* "self.consult(category, line_number)[0]" raises IndexError on an empty
\* list.
SQLite3Adapter_remove_fact(db, category, line_number) ==
  LET c == SQLite3Adapter_consult(db, category, line_number, Ordered)
  IN IF c.rows = <<>> THEN Ret(db, Raise("IndexError"))
     ELSE Ret(DeleteEntry(db, c.rows[1], category), Ok(<<>>))

\* SQLite enforces foreign keys only on a connection that has issued PRAGMA
\* foreign_keys = ON; __init__ and _create_database never do.
foreign_keys == FALSE

SQLite3Adapter_remove_category(db, category) ==
  Ret(DeleteCategory(db, category, foreign_keys, TRUE), Ok(<<>>))

SQLite3Adapter_search(db, pattern) ==
  Ok(SearchRows(db, <<"%">> \o pattern \o <<"%">>))

SQLite3Adapter_list_categories(db) == Ok(CategoryRows(db))

\* ------------------------------------------------------------ MySQLAdapter
\* _create_database on MySQL: the same tables, their VARCHAR name columns
\* in the server's default collation, which is case-insensitive.
MySQLDb == [EmptyDb EXCEPT !.collate = "ci"]

\* A connection is the tables as its statements see them (db) and the
\* tables as of its last commit (committed); autocommit is off.
Connect == [db |-> MySQLDb, committed |-> MySQLDb]

Commit(conn) == [conn EXCEPT !.committed = conn.db]

Execute(conn, r) == [conn EXCEPT !.db = r.db]

\* No try/finally: when the INSERT raises, neither commit() nor
\* cursor.close() is reached.
MySQLAdapter__add_fact(conn, fact) ==
  LET r == InsertFact(conn.db, fact)
  IN IF r.err # "" THEN [err |-> r.err, conn |-> conn, cursors |-> 1]
     ELSE [err |-> "", conn |-> Commit(Execute(conn, r)), cursors |-> 0]

MySQLAdapter_add_category(conn, category) ==
  LET r == InsertCategory(conn.db, category)
  IN IF r.err = "IntegrityError"
     THEN Ret(conn, Raise("DuplicateException"))
     ELSE Ret(Commit(Execute(conn, r)), Ok(<<>>))

RECURSIVE MySQLAdapter_add_categories(_, _)
MySQLAdapter_add_categories(conn, categories) ==
  IF categories = <<>> THEN conn
  ELSE MySQLAdapter_add_categories(
         MySQLAdapter_add_category(conn, Head(categories)).st,
         Tail(categories))

\* commit() follows the loop inside the try: when an INSERT raises, the rows
\* of the earlier INSERTs stay in the open transaction, neither committed
\* nor rolled back.  The cursor of the loop is closed in a finally clause,
\* as is add_category's; the one _add_fact left open stays open.
MySQLAdapter_add_fact(conn, fact, categories) ==
  LET a == MySQLAdapter__add_fact(conn, fact)
      c2 == MySQLAdapter_add_categories(a.conn, categories)
      r == InsertEntries(c2.db, fact, categories)
  IN IF r.err = "IntegrityError"
     THEN Ret(Execute(c2, r), Unclosed(Raise("DuplicateException"), a.cursors))
     ELSE Ret(Commit(Execute(c2, r)), Unclosed(Ok(<<>>), a.cursors))

\* With a position the query text ends in "OFFSET ?" while the connector's
\* placeholder is %s: of the two parameters passed only one is used, and
\* execute() raises ProgrammingError before anything is read.  The cursor
\* is opened before execute() and closed after fetchall(), with no
\* try/finally.
MySQLAdapter_consult(conn, category, fact_position, plan) ==
  IF fact_position # None
  THEN Unclosed(Raise("ProgrammingError"), 1)
  ELSE Ok(ConsultAll(conn.db, category, plan))

MySQLAdapter_remove_fact(conn, category, line_number) ==
  LET c == MySQLAdapter_consult(conn, category, line_number, Ordered)
  IN IF c.kind # "ok" THEN Ret(conn, c)
     ELSE IF c.rows = <<>> THEN Ret(conn, Raise("IndexError"))
     ELSE Ret(Commit(Execute(conn,
                Done(DeleteEntry(conn.db, c.rows[1], category)))), Ok(<<>>))

\* The engine enforces the foreign key, but the rows a cascade deletes do
\* not activate triggers.
MySQLAdapter_remove_category(conn, category) ==
  Ret(Commit(Execute(conn, Done(DeleteCategory(conn.db, category, TRUE, FALSE)))),
      Ok(<<>>))

MySQLAdapter_search(conn, pattern) ==
  Ok(SearchRows(conn.db, <<"%">> \o pattern \o <<"%">>))

MySQLAdapter_list_categories(conn) == Ok(CategoryRows(conn.db))

\* ------------------------------------------------------------------- state
VARIABLES
  adapter_class, \* the adapter the bot was constructed with
  conn,          \* the adapter's connection: its tables, and as committed
  call,          \* the last call made on the adapter
  res,           \* what that call returned or raised
  prev,          \* the connection before that call
  msg,           \* the chat message last handled, and the file with it
  started,       \* the time the bot was constructed at
  now,           \* the time, in minutes since 00:00 of the day it was
  timers,        \* the pending timers: the time each is to wake up at
  sent           \* the times "Amen !" has been broadcast at

vars ==
  <<adapter_class, conn, call, res, prev, msg, started, now, timers, sent>>

clock == <<started, now, timers, sent>>


Call(op, fact, categories, category, position, pattern) ==
  [op |-> op, fact |-> fact, categories |-> categories,
   category |-> category, position |-> position, pattern |-> pattern]

\* The SQLite3Adapter leaves no transaction open between calls: what its
\* connection sees is what is committed.
Lite(r) == Ret([db |-> r.st, committed |-> r.st], r.res)

\* The adapter's __init__: connect and _create_database.
Open(class) ==
  IF class = "SQLite3Adapter" THEN Lite(Ret(EmptyDb, Ok(<<>>))).st ELSE Connect

\* No message: no content, no file attached.
NoMessage == [content |-> <<>>, attachment |-> <<>>]

\* A day and the time of its broadcast, 21:23, in minutes.
Day == 24 * 60
AmenAt == 21 * 60 + 23

\* TwentyThreeBot.__init__ at time t: the adapter is constructed on a new
\* backend, no message has been handled, and the timer is started with
\* delta = (21:23 of the day of t) - t; a sleep wakes up delta after it
\* was started.
Started(t) ==
  /\ msg = NoMessage
  /\ started = t
  /\ now = t
  /\ timers = {t + (((t \div Day) * Day + AmenAt) - t)}
  /\ sent = <<>>

Constructed(t) ==
  /\ adapter_class \in {"SQLite3Adapter", "MySQLAdapter"}
  /\ conn = Open(adapter_class)
  /\ call = Call("open", <<>>, <<>>, "", None, <<>>)
  /\ res = Ok(<<>>)
  /\ prev = conn
  /\ Started(t)

\* The calls on the store do not depend on the time: for them the bot is
\* constructed at 00:00.
Init == Constructed(0)

\* The tables have handed out at most MaxRows ids.
WithinBounds(db) ==
  db.seq.categories + db.seq.facts + db.seq.entries <= MaxRows

\* One call on the adapter: l is its outcome on the SQLite3Adapter, m on
\* the MySQLAdapter.
Step(c, l, m) ==
  LET r == IF adapter_class = "SQLite3Adapter" THEN Lite(l) ELSE m
  IN /\ WithinBounds(r.st.db)
     /\ call' = c
     /\ conn' = r.st
     /\ res' = r.res
     /\ prev' = conn
     /\ UNCHANGED adapter_class
     /\ UNCHANGED clock

\* A call made on the adapter directly, not by a chat message.
Direct(c, l, m) == Step(c, l, m) /\ UNCHANGED msg

\* The operations, their arguments drawn from the given sets.
add_fact_of(texts, lists) ==
  \E fact \in texts, categories \in lists :
    Direct(Call("add_fact", fact, categories, "", None, <<>>),
           SQLite3Adapter_add_fact(conn.db, fact, categories),
           MySQLAdapter_add_fact(conn, fact, categories))

add_category_of(names) ==
  \E category \in names :
    Direct(Call("add_category", <<>>, <<>>, category, None, <<>>),
           SQLite3Adapter_add_category(conn.db, category),
           MySQLAdapter_add_category(conn, category))

remove_fact_of(names) ==
  \E category \in names, line_number \in Positions :
    Direct(Call("remove_fact", <<>>, <<>>, category, line_number, <<>>),
           SQLite3Adapter_remove_fact(conn.db, category, line_number),
           MySQLAdapter_remove_fact(conn, category, line_number))

remove_category_of(names) ==
  \E category \in names :
    Direct(Call("remove_category", <<>>, <<>>, category, None, <<>>),
           SQLite3Adapter_remove_category(conn.db, category),
           MySQLAdapter_remove_category(conn, category))

search_of(patterns) ==
  \E pattern \in patterns :
    Direct(Call("search", <<>>, <<>>, "", None, pattern),
           Ret(conn.db, SQLite3Adapter_search(conn.db, pattern)),
           Ret(conn, MySQLAdapter_search(conn, pattern)))

list_categories ==
  Direct(Call("list_categories", <<>>, <<>>, "", None, <<>>),
         Ret(conn.db, SQLite3Adapter_list_categories(conn.db)),
         Ret(conn, MySQLAdapter_list_categories(conn)))

consult_of(names) ==
  \E category \in names, fact_position \in Positions \cup {None} :
  \E plan \in IF fact_position = None THEN Plans ELSE {Ordered} :
    Direct(Call("consult", <<>>, <<>>, category, fact_position, <<>>),
           Ret(conn.db, SQLite3Adapter_consult(conn.db, category,
                                               fact_position, plan)),
           Ret(conn, MySQLAdapter_consult(conn, category, fact_position, plan)))

\* The bot's calls with distinct letters as names.
add_fact == add_fact_of(FactTexts, CategoryLists)

add_category == add_category_of(CategoryNames)

remove_fact == remove_fact_of(CategoryNames)

remove_category == remove_category_of(CategoryNames)

search == search_of(Patterns)

consult == consult_of(CategoryNames)

Next ==
  \/ add_fact
  \/ add_category
  \/ remove_fact
  \/ remove_category
  \/ search
  \/ list_categories
  \/ consult

Spec == Init /\ [][Next]_vars

\* The bot's calls with names that differ only in the case of a letter.
NamesByCase == {"A", "a"}
TextsByCase == {<<"a">>, <<"A">>}
ListsByCase == UNION {[1..n -> NamesByCase] : n \in 0..MaxCategories}

NextByCase ==
  \/ add_fact_of(TextsByCase, ListsByCase)
  \/ add_category_of(NamesByCase)
  \/ remove_fact_of(NamesByCase)
  \/ remove_category_of(NamesByCase)
  \/ search_of(Patterns)
  \/ list_categories
  \/ consult_of(NamesByCase)

SpecByCase == Init /\ [][NextByCase]_vars

\* ------------------------------------------------------ the bot restarted
\* SQLite3Adapter._create_database on a backend where it has run before:
\* every CREATE TABLE and the CREATE TRIGGER say IF NOT EXISTS and leave
\* what exists as it is.
SQLite3Adapter__create_database(db) == Ret(db, Ok(<<>>))

\* MySQLAdapter._create_database on a backend where it has run before: the
\* CREATE TABLEs say IF NOT EXISTS, CREATE TRIGGER does not.  The server
\* answers it with error 1359, "Trigger already exists", whose SQLSTATE is
\* HY000; the connector raises the errors of class HY as DatabaseError,
\* which "except mysql.ProgrammingError" (a subclass of it) does not
\* catch.  The finally clause commits and closes the cursor, and the error
\* leaves __init__.
MySQLAdapter__create_database(cn) ==
  Ret(Commit(cn), Raise("DatabaseError"))

\* mysql.connect to a backend used before: the new connection sees what was
\* committed; what the old one had pending went with it.
Reconnect(cn) == [db |-> cn.committed, committed |-> cn.committed]

\* The adapter's __init__ on the backend it was used on before.
Reopen(class, cn) ==
  IF class = "SQLite3Adapter"
  THEN Lite(SQLite3Adapter__create_database(cn.committed))
  ELSE MySQLAdapter__create_database(Reconnect(cn))

\* The bot is started again, on the same backend.
open ==
  LET r == Reopen(adapter_class, conn)
  IN /\ call' = Call("open", <<>>, <<>>, "", None, <<>>)
     /\ conn' = r.st
     /\ res' = r.res
     /\ prev' = conn
     /\ UNCHANGED <<adapter_class, msg>>
     /\ UNCHANGED clock

\* There is an adapter to call once __init__ has returned normally.
Up == ~ (call.op = "open" /\ res.kind # "ok")

NextReopen ==
  \/ open
  \/ Up /\ Next

SpecReopen == Init /\ [][NextReopen]_vars

\* ------------------------------------------------------------ chat commands
\* A message's content is a sequence of characters.  \d and \s as far as
\* the messages go: they hold the ten digits and the space.
Digits == <<"0", "1", "2", "3", "4", "5", "6", "7", "8", "9">>

IsDigit(ch) == ch \in Range(Digits)

IsSpace(ch) == ch = " "

\* int(s) of a string of decimal digits.
RECURSIVE int(_)
int(s) ==
  IF s = <<>> THEN 0
  ELSE 10 * int(SubSeq(s, 1, Len(s) - 1))
         + (CHOOSE d \in 0..9 : Digits[d + 1] = s[Len(s)])

\* Where the first white space of s is, Len(s) + 1 when it has none.
FirstSpace(s) ==
  IF \E i \in 1..Len(s) : IsSpace(s[i])
  THEN CHOOSE i \in 1..Len(s) :
         IsSpace(s[i]) /\ \A j \in 1..(i - 1) : ~ IsSpace(s[j])
  ELSE Len(s) + 1

\* Category names are one letter: the string that a matched character
\* sequence of length one is.
Name(chars) == chars[1]

\* re.compile(r"^NAME\s(\S+)(\s(\d)+)?$").match(content) and its groups 1
\* and 3.  (\S+) runs up to the first white space after it; what follows
\* must be one white space and digits to the end.  Group 3 is inside the
\* repetition (\d)+, so it holds what its last round matched: the last
\* digit.  <<>> stands for the None of a group that took no part.
COMMAND_PATTERN(name, content) ==
  LET n == Len(name)
      rest == SubSeq(content, n + 2, Len(content))
      stop == FirstSpace(rest)
      digits == SubSeq(rest, stop + 1, Len(rest))
  IN [matched |->
        /\ Len(content) > n + 1
        /\ SubSeq(content, 1, n) = name
        /\ IsSpace(content[n + 1])
        /\ stop > 1
        /\ stop <= Len(rest) =>
             (digits # <<>> /\ \A i \in 1..Len(digits) : IsDigit(digits[i])),
      group1 |-> SubSeq(rest, 1, stop - 1),
      group3 |-> IF digits = <<>> THEN <<>> ELSE <<digits[Len(digits)]>>]

ADD == <<"/", "2", "3", "a", "d", "d">>
CONSULT == <<"/", "2", "3", "c", "o", "n", "s", "u", "l", "t">>
REMOVE == <<"/", "2", "3", "r", "e", "m", "o", "v", "e">>

ConsultCommand_COMMAND_PATTERN(content) == COMMAND_PATTERN(CONSULT, content)

RemoveCommand_COMMAND_PATTERN(content) == COMMAND_PATTERN(REMOVE, content)

\* re.compile(r"^/23add\s(\S+)\s(.+)$").match(content), groups 1 and 2.
AddCommand_COMMAND_PATTERN(content) ==
  LET n == Len(ADD)
      rest == SubSeq(content, n + 2, Len(content))
      stop == FirstSpace(rest)
  IN [matched |->
        /\ Len(content) > n + 1
        /\ SubSeq(content, 1, n) = ADD
        /\ IsSpace(content[n + 1])
        /\ stop > 1
        /\ stop < Len(rest),
      group1 |-> SubSeq(rest, 1, stop - 1),
      group2 |-> SubSeq(rest, stop + 1, Len(rest))]

\* The messages the users post: /23add CATEGORY FACT, and /23consult and
\* /23remove CATEGORY with or without a LINE of up to MaxDigits digits.
MaxDigits == 2
LineDigits == {"0", "1", "2"}
Lines == UNION {[1..n -> LineDigits] : n \in 1..MaxDigits}

Messages ==
  {ADD \o <<" ", c, " ">> \o f : c \in CategoryNames, f \in FactTexts}
    \cup {name \o <<" ", c>> :
            name \in {CONSULT, REMOVE}, c \in CategoryNames}
    \cup {name \o <<" ", c, " ">> \o l :
            name \in {CONSULT, REMOVE}, c \in CategoryNames, l \in Lines}

\* on_message hands the message to every command; the one whose pattern
\* matches runs its _do_match.
Handled(content) == msg' = [content |-> content, attachment |-> <<>>]

AddCommand ==
  \E content \in Messages :
    LET match == AddCommand_COMMAND_PATTERN(content)
        category == Name(match.group1)
    IN /\ match.matched
       /\ Step(Call("add_fact", match.group2, <<category>>, "", None, <<>>),
               SQLite3Adapter_add_fact(conn.db, match.group2, <<category>>),
               MySQLAdapter_add_fact(conn, match.group2, <<category>>))
       /\ Handled(content)

ConsultCommand ==
  \E content \in Messages :
    LET match == ConsultCommand_COMMAND_PATTERN(content)
        category == Name(match.group1)
        line_number == IF match.group3 # <<>> THEN int(match.group3) ELSE None
    IN /\ match.matched
       /\ \E plan \in IF line_number = None THEN Plans ELSE {Ordered} :
            Step(Call("consult", <<>>, <<>>, category, line_number, <<>>),
                 Ret(conn.db, SQLite3Adapter_consult(conn.db, category,
                                                     line_number, plan)),
                 Ret(conn, MySQLAdapter_consult(conn, category,
                                                line_number, plan)))
       /\ Handled(content)

RemoveCommand ==
  \E content \in Messages :
    LET match == RemoveCommand_COMMAND_PATTERN(content)
        category == Name(match.group1)
        line_number == int(match.group3)
    IN /\ match.matched
       /\ IF match.group3 # <<>>
          THEN Step(Call("remove_fact", <<>>, <<>>, category, line_number, <<>>),
                    SQLite3Adapter_remove_fact(conn.db, category, line_number),
                    MySQLAdapter_remove_fact(conn, category, line_number))
          ELSE Step(Call("remove_category", <<>>, <<>>, category, None, <<>>),
                    SQLite3Adapter_remove_category(conn.db, category),
                    MySQLAdapter_remove_category(conn, category))
       /\ Handled(content)

NextChat ==
  \/ AddCommand
  \/ ConsultCommand
  \/ RemoveCommand

SpecChat == Init /\ [][NextChat]_vars

\* -------------------------------------------------------- export and import
\* The operations of the bot's adapter on a connection.
Consult(cn, category, fact_position, plan) ==
  IF adapter_class = "SQLite3Adapter"
  THEN SQLite3Adapter_consult(cn.db, category, fact_position, plan)
  ELSE MySQLAdapter_consult(cn, category, fact_position, plan)

Search(cn, pattern) ==
  IF adapter_class = "SQLite3Adapter"
  THEN SQLite3Adapter_search(cn.db, pattern)
  ELSE MySQLAdapter_search(cn, pattern)

\* The adapter's list_categories on a connection.
ListCategories(cn) ==
  IF adapter_class = "SQLite3Adapter"
  THEN SQLite3Adapter_list_categories(cn.db)
  ELSE MySQLAdapter_list_categories(cn)

\* add_fact on the adapter a connection belongs to: the SQLite3Adapter's is
\* the one whose tables compare names byte by byte.
AddFact(cn, fact, categories) ==
  IF cn.db.collate = "BINARY"
  THEN Lite(SQLite3Adapter_add_fact(cn.db, fact, categories))
  ELSE MySQLAdapter_add_fact(cn, fact, categories)

\* DownloadCommand._do_match: list_categories, then consult(category) for
\* each name in the order listed; the file's lines are each category's name
\* and its facts, numbered from 1 in the order consult returns them.
\* plans[category] is the access path the engine walks for that consult.
DownloadCommand__do_match(cn, plans) ==
  LET categories == ListCategories(cn).rows
  IN [i \in 1..Len(categories) |->
        [category |-> categories[i],
         facts |-> Consult(cn, categories[i], None,
                           plans[categories[i]]).rows]]

\* "{}".format(n) of a number n >= 0: its decimal digits.
RECURSIVE str(_)
str(n) ==
  IF n < 10 THEN <<Digits[n + 1]>>
  ELSE str(n \div 10) \o <<Digits[(n % 10) + 1]>>

\* The lines written for one category: "[{}]\n", then "{}. {}\n" with i + 1
\* and the fact for each fact, then "\n".  A file is the sequence of its
\* lines, each without the "\n" that ends it.
Section(s) ==
  <<<<"[", s.category, "]">>>>
    \o [i \in 1..Len(s.facts) |-> str(i) \o <<".", " ">> \o s.facts[i]]
    \o <<<<>>>>

RECURSIVE File(_)
File(sections) ==
  IF sections = <<>> THEN <<>>
  ELSE Section(Head(sections)) \o File(Tail(sections))

\* file.split("\n"): the lines, and the empty string after the last "\n".
Split(file) == file \o <<<<>>>>

\* CATEGORY_PATTERN = re.compile(r"^\[(\S+)\]$"): group 1 of the match, <<>>
\* when the line does not match.
CATEGORY_PATTERN(line) ==
  IF /\ Len(line) >= 3
     /\ line[1] = "["
     /\ line[Len(line)] = "]"
     /\ \A i \in 2..(Len(line) - 1) : ~ IsSpace(line[i])
  THEN SubSeq(line, 2, Len(line) - 1)
  ELSE <<>>

\* The None of "category = None" (no category name is empty).
NoCategory == ""

\* UploadCommand._do_match over the lines left to read: a line that matches
\* CATEGORY_PATTERN sets the category; any other line that is not empty,
\* once a category is set, is added to it without its first three
\* characters (line[3:]), a DuplicateException being passed over.
RECURSIVE UploadCommand__do_match(_, _, _)
UploadCommand__do_match(cn, lines, category) ==
  IF lines = <<>> THEN cn
  ELSE LET line == Head(lines)
           match == CATEGORY_PATTERN(line)
       IN IF match # <<>>
          THEN UploadCommand__do_match(cn, Tail(lines), Name(match))
          ELSE IF category # NoCategory /\ line # <<>>
          THEN UploadCommand__do_match(
                 AddFact(cn, SubSeq(line, 4, Len(line)), <<category>>).st,
                 Tail(lines), category)
          ELSE UploadCommand__do_match(cn, Tail(lines), category)

DOWNLOAD == <<"/", "2", "3", "d", "o", "w", "n", "l", "o", "a", "d">>
UPLOAD == <<"/", "2", "3", "u", "p", "l", "o", "a", "d">>

\* The facts the users have added to a category: n texts, the i-th of i
\* letters.
MaxFacts == 11
MaxOther == 2

Text(i) == [j \in 1..i |-> "a"]

RECURSIVE Filled(_, _, _)
Filled(cn, category, n) ==
  IF n = 0 THEN cn
  ELSE AddFact(Filled(cn, category, n - 1), Text(n), <<category>>).st

\* A bot whose users have added up to MaxFacts facts to category A and up
\* to MaxOther of them to category B as well.
InitFile ==
  /\ adapter_class \in {"SQLite3Adapter", "MySQLAdapter"}
  /\ conn \in {Filled(Filled(Open(adapter_class), "A", n), "B", k) :
                 n \in 0..MaxFacts, k \in 0..MaxOther}
  /\ call = Call("open", <<>>, <<>>, "", None, <<>>)
  /\ res = Ok(<<>>)
  /\ prev = conn
  /\ Started(0)

\* /23download, as long as no file has been sent: the store is written to
\* a file, which is sent to the channel.
DownloadCommand ==
  \E plans \in [CategoryNames -> Plans] :
    /\ msg.attachment = <<>>
    /\ msg' = [content |-> DOWNLOAD,
               attachment |-> File(DownloadCommand__do_match(conn, plans))]
    /\ call' = Call("download", <<>>, <<>>, "", None, <<>>)
    /\ res' = Ok(<<>>)
    /\ prev' = conn
    /\ UNCHANGED <<adapter_class, conn>>
    /\ UNCHANGED clock

\* /23upload with the file that was sent attached.
UploadCommand ==
  /\ msg.attachment # <<>>
  /\ msg' = [content |-> UPLOAD, attachment |-> msg.attachment]
  /\ call' = Call("upload", <<>>, <<>>, "", None, <<>>)
  /\ conn' = UploadCommand__do_match(conn, Split(msg.attachment),
                                     NoCategory)
  /\ res' = Ok(<<>>)
  /\ prev' = conn
  /\ UNCHANGED adapter_class
  /\ UNCHANGED clock

\* The bot is started on a new backend: its store is empty.
open_new ==
  /\ conn' = Open(adapter_class)
  /\ call' = Call("open", <<>>, <<>>, "", None, <<>>)
  /\ res' = Ok(<<>>)
  /\ prev' = conn
  /\ UNCHANGED <<adapter_class, msg>>
  /\ UNCHANGED clock

NextFile ==
  \/ DownloadCommand
  \/ UploadCommand
  \/ open_new

SpecFile == InitFile /\ [][NextFile]_vars

\* ------------------------------------------------------ the daily broadcast
\* The times of day the bot is constructed at, and the broadcasts followed.
StartTimes == {h * 60 + m : h \in 0..23, m \in {0, 23, 24}}
MaxAmens == 3

InitAmen == \E t \in StartTimes : Constructed(t)

\* _Timer._job of the pending timer: asyncio.sleep returns when the timer's
\* time has come, at once when that time is not after now (a delay that is
\* not positive); then the callback _display_amen runs: _schedule() starts
\* a new timer of 24 hours and "Amen !" is sent to the servers.
Timer__job ==
  \E t \in timers :
    LET woken == Max(now, t)
    IN /\ Len(sent) < MaxAmens
       /\ \A u \in timers : t <= u
       /\ now' = woken
       /\ timers' = (timers \ {t}) \cup {woken + Day}
       /\ sent' = Append(sent, woken)
       /\ UNCHANGED <<adapter_class, conn, call, res, prev, msg, started>>

NextAmen == Timer__job

SpecAmen == InitAmen /\ [][NextAmen]_vars

\* ---------------------------------------------------- vocabulary of claims
\* search returns the fact text when asked for that very text.
Found(cn, text) == text \in Range(Search(cn, text).rows)

\* The Category rows a Fact row is linked to by an Entry, and the Fact rows
\* linked to the category of a given name.
CategoriesOf(db, f) ==
  {c \in db.categories :
     \E e \in db.entries : e.fact_id = f.id /\ e.category_id = c.id}

FactsOf(db, category) ==
  {f \in db.facts : \E c \in CategoriesOf(db, f) : c.name = category}

EntriesOf(db, f) == {e \in db.entries : e.fact_id = f.id}

\* The texts of FactsOf in ascending order of Fact id.
Ascending(db, category) == Names(SortedBy(FactsOf(db, category), "id"))

\* ------------------------------------------------------------------ claims

\* C1: in every reachable state every stored Fact is linked by at least one
\* Entry (no Fact with zero Entries persists once an operation has
\* returned).
C1_NoFactWithoutEntry ==
  \A f \in conn.db.facts : EntriesOf(conn.db, f) # {}

\* C2: in every reachable state every Entry's category_id is the id of an
\* existing Category and its fact_id the id of an existing Fact.
C2_NoDanglingEntry ==
  \A e \in conn.db.entries :
    /\ \E c \in conn.db.categories : c.id = e.category_id
    /\ \E f \in conn.db.facts : f.id = e.fact_id

\* C3: after remove_category(c) on an existing category c no Entry of c
\* remains, every Fact that was linked only to c is no longer returned by
\* search, and every Fact also linked to another category still is.
C3_RemoveCategoryCascades ==
  (call.op = "remove_category") =>
    \A c \in {x \in prev.db.categories : x.name = call.category} :
      /\ \A e \in conn.db.entries : e.category_id # c.id
      /\ \A f \in FactsOf(prev.db, c.name) :
           IF CategoriesOf(prev.db, f) = {c}
           THEN ~ Found(conn, f.name)
           ELSE Found(conn, f.name)

\* The Entry linking the fact of that text to the category of that name.
HasEntry(db, fact, category) ==
  \E f \in FactsOf(db, category) : f.name = fact

\* The same, fact and category being the rows the store takes for these
\* names.
Linked(db, fact, category) ==
  \E f \in db.facts, c \in db.categories, e \in db.entries :
    /\ SameText(db, f.name, fact) /\ SameName(db, c.name, category)
    /\ e.fact_id = f.id /\ e.category_id = c.id

\* add_fact(fact, categories) conflicts at index i when the Entry for
\* categories[i] existed before the call or an earlier index names the same
\* category; ConflictAt is the first such index (0 when there is none).
Conflicts(db, fact, categories, i) ==
  \/ Linked(db, fact, categories[i])
  \/ \E j \in 1..(i - 1) : SameName(db, categories[j], categories[i])

ConflictAt(db, fact, categories) ==
  IF \E i \in 1..Len(categories) : Conflicts(db, fact, categories, i)
  THEN CHOOSE i \in 1..Len(categories) :
         /\ Conflicts(db, fact, categories, i)
         /\ \A j \in 1..(i - 1) : ~ Conflicts(db, fact, categories, j)
  ELSE 0

AddFactFailed == call.op = "add_fact" /\ res.kind = "DuplicateException"

SameRows(d1, d2) ==
  /\ d1.categories = d2.categories
  /\ d1.facts = d2.facts
  /\ d1.entries = d2.entries

\* C5: the two variants return the same result, or raise the same kind of
\* failure, for each call and end in the same store contents.  Stated as
\* the step that carries it along every sequence of calls: from the same
\* store contents, each call returns the same on both variants and leaves
\* them with the same contents.  (The empty store is where both start.)
SameResult(a, b) == a.kind = b.kind /\ a.rows = b.rows

Same(l, m) == SameResult(l.res, m.res) /\ SameRows(l.st, m.st.db)

C5_VariantsAgree ==
  LET lite == [conn.db EXCEPT !.collate = "BINARY"]
      my == [conn.db EXCEPT !.collate = "ci"]
      both == [db |-> my, committed |-> my]
  IN \A plan \in Plans :
     /\ \A fact \in FactTexts, categories \in CategoryLists :
          Same(SQLite3Adapter_add_fact(lite, fact, categories),
               MySQLAdapter_add_fact(both, fact, categories))
     /\ \A category \in CategoryNames :
          /\ Same(SQLite3Adapter_add_category(lite, category),
                  MySQLAdapter_add_category(both, category))
          /\ Same(SQLite3Adapter_remove_category(lite, category),
                  MySQLAdapter_remove_category(both, category))
          /\ \A position \in Positions :
               Same(SQLite3Adapter_remove_fact(lite, category, position),
                    MySQLAdapter_remove_fact(both, category, position))
          /\ \A position \in Positions \cup {None} :
               SameResult(
                 SQLite3Adapter_consult(lite, category, position, plan),
                 MySQLAdapter_consult(both, category, position, plan))
     /\ \A pattern \in Patterns :
          SameResult(SQLite3Adapter_search(lite, pattern),
                     MySQLAdapter_search(both, pattern))
     /\ SameResult(SQLite3Adapter_list_categories(lite),
                   MySQLAdapter_list_categories(both))

C7_ConsultAtKth ==
  (/\ call.op = "consult"
   /\ call.position >= 1
   /\ call.position <= Cardinality(FactsOf(conn.db, call.category))) =>
    res = Ok(<<Ascending(conn.db, call.category)[call.position]>>)

RemoveFactBeyond ==
  /\ call.op = "remove_fact"
  /\ call.position > Cardinality(FactsOf(prev.db, call.category))

C9_ConsultBeyondEmpty ==
  (/\ call.op = "consult"
   /\ call.position # None
   /\ call.position > Cardinality(FactsOf(conn.db, call.category))) =>
    res = Ok(<<>>)

\* The Fact row at position k (1-based, ascending Fact id) of the category a
\* successful remove_fact was called on, as it was before the call.
RemoveFactDone ==
  /\ call.op = "remove_fact"
  /\ res.kind = "ok"
  /\ call.position >= 1

Removed ==
  CHOOSE f \in FactsOf(prev.db, call.category) :
    f.name = Ascending(prev.db, call.category)[call.position]

\* C10: after a successful remove_fact(c, k) the fact that was at position k
\* is no longer in consult(c); if that Entry was its last Entry the Fact is
\* no longer returned by search, and if it is still linked to another
\* category it is still returned by search and by that category's consult.
C10_RemoveFactRemoves ==
  RemoveFactDone =>
    /\ call.position <= Cardinality(FactsOf(prev.db, call.category))
    /\ \A plan \in Plans :
         Removed.name
           \notin Range(Consult(conn, call.category, None, plan).rows)
    /\ Cardinality(EntriesOf(prev.db, Removed)) = 1 =>
         ~ Found(conn, Removed.name)
    /\ \A c \in CategoriesOf(prev.db, Removed) :
         c.name # call.category =>
           /\ Found(conn, Removed.name)
           /\ \A plan \in Plans :
                Removed.name \in Range(Consult(conn, c.name, None, plan).rows)

\* A fact linked to two categories was removed from one of them.
C10_Witness ==
  /\ RemoveFactDone
  /\ Cardinality(CategoriesOf(prev.db, Removed)) = 2

\* How many times x occurs in the list rows.
Count(rows, x) == Cardinality({i \in 1..Len(rows) : rows[i] = x})

\* add_fact(f, [c]) called when the Entry (f, c) exists.
AddFactAgain ==
  /\ call.op = "add_fact"
  /\ Len(call.categories) = 1
  /\ HasEntry(prev.db, call.fact, call.categories[1])

\* C11: add_fact(f, [c]) called when the Entry (f, c) already exists fails
\* with DuplicateException, and afterwards consult(c) still contains f
\* exactly once.
C11_DuplicateEntryFails ==
  AddFactAgain =>
    /\ res.kind = "DuplicateException"
    /\ \A plan \in Plans :
         LET c == Consult(conn, call.categories[1], None, plan)
         IN c.kind = "ok" /\ Count(c.rows, call.fact) = 1

\* The second of two equal add_fact calls has raised.
C11_Witness ==
  /\ AddFactAgain
  /\ res.kind = "DuplicateException"
  /\ Count(Consult(conn, call.categories[1], None, Ordered).rows, call.fact) = 1

\* add_fact(f, [B]) called when f is linked to another category A and not
\* to B.
AddFactElsewhere ==
  /\ call.op = "add_fact"
  /\ Len(call.categories) = 1
  /\ ~ HasEntry(prev.db, call.fact, call.categories[1])
  /\ \E c \in prev.db.categories :
       c.name # call.categories[1] /\ HasEntry(prev.db, call.fact, c.name)

\* C12: adding a fact text that already exists under category A to a
\* different category B succeeds without error, whether or not a Category
\* named B already exists; it creates one new Entry, linking the existing
\* Fact to B, and no second Fact row, and search for that text returns it
\* exactly once.
C12_SameFactOtherCategory ==
  AddFactElsewhere =>
    /\ res.kind = "ok"
    /\ conn.db.facts = prev.db.facts
    /\ \A f, g \in conn.db.facts : f.name = g.name => f = g
    /\ prev.db.entries \subseteq conn.db.entries
    /\ Cardinality(conn.db.entries \ prev.db.entries) = 1
    /\ HasEntry(conn.db, call.fact, call.categories[1])
    /\ Count(Search(conn, call.fact).rows, call.fact) = 1

\* C13: for every fact text f and category name c, in every reachable
\* state, after add_fact(f, [c]) has returned (successfully or with
\* DuplicateException) consult(c) contains f exactly once.
C13_AddThenConsultOnce ==
  (call.op = "add_fact" /\ Len(call.categories) = 1) =>
    /\ res.kind \in {"ok", "DuplicateException"}
    /\ \A plan \in Plans :
         LET c == Consult(conn, call.categories[1], None, plan)
         IN c.kind = "ok" /\ Count(c.rows, call.fact) = 1

\* C14: in every reachable state no two Categories have the same name, no
\* two Facts have the same text, and no two Entries have the same
\* (category_id, fact_id) pair.
C14_Unique ==
  /\ \A c, d \in conn.db.categories : c.name = d.name => c = d
  /\ \A f, g \in conn.db.facts : f.name = g.name => f = g
  /\ \A e, g \in conn.db.entries :
       (e.category_id = g.category_id /\ e.fact_id = g.fact_id) => e = g

\* A Category, a Fact and an Entry that are stored have just been added
\* again.
C14_Witness ==
  /\ call.op = "add_fact"
  /\ res.kind = "DuplicateException"
  /\ \E f \in prev.db.facts : f.name = call.fact
  /\ \A i \in 1..Len(call.categories) :
       /\ \E c \in prev.db.categories : c.name = call.categories[i]
       /\ HasEntry(prev.db, call.fact, call.categories[i])
  /\ Len(call.categories) = 2
  /\ call.categories[1] # call.categories[2]

\* C15: add_category(name) fails with DuplicateException when a Category
\* with that name already exists, and the failed call leaves Categories,
\* Facts and Entries unchanged; when the name does not exist it adds
\* exactly that Category and nothing else.
C15_AddCategory ==
  (call.op = "add_category") =>
    IF \E c \in prev.db.categories : c.name = call.category
    THEN /\ res.kind = "DuplicateException"
         /\ SameRows(conn.db, prev.db)
         /\ SameRows(conn.committed, prev.committed)
    ELSE /\ res.kind = "ok"
         /\ prev.db.categories \subseteq conn.db.categories
         /\ {c.name : c \in conn.db.categories \ prev.db.categories}
              = {call.category}
         /\ Cardinality(conn.db.categories \ prev.db.categories) = 1
         /\ conn.db.facts = prev.db.facts
         /\ conn.db.entries = prev.db.entries

\* C16: remove_category(name) for a name that is not an existing Category
\* raises no error and leaves Categories, Facts and Entries unchanged.
C16_RemoveAbsentCategory ==
  (/\ call.op = "remove_category"
   /\ ~ \E c \in prev.db.categories : c.name = call.category) =>
    /\ res.kind = "ok"
    /\ SameRows(conn.db, prev.db)

\* The Entries of the categories of other names than category (those of no
\* category included).
EntriesElsewhere(db, category) ==
  {e \in db.entries :
     ~ \E c \in db.categories : c.name = category /\ c.id = e.category_id}

\* C17: remove_fact(c, k) never changes the set of Categories: after it
\* returns, successfully or not, list_categories returns the same names as
\* before, even when c is left with no facts, and the Entries of other
\* categories are untouched.
C17_RemoveFactKeepsCategories ==
  (call.op = "remove_fact") =>
    /\ conn.db.categories = prev.db.categories
    /\ ListCategories(conn) = ListCategories(prev)
    /\ ListCategories(conn).kind = "ok"
    /\ EntriesElsewhere(conn.db, call.category)
         = EntriesElsewhere(prev.db, call.category)
    /\ conn.db.entries \subseteq prev.db.entries

\* remove_fact has taken its last fact from a category, which is still
\* listed, while another category holds an Entry.
C17_Witness ==
  /\ call.op = "remove_fact"
  /\ res.kind = "ok"
  /\ FactsOf(prev.db, call.category) # {}
  /\ FactsOf(conn.db, call.category) = {}
  /\ call.category \in Range(ListCategories(conn).rows)
  /\ \E c \in conn.db.categories :
       c.name # call.category /\ FactsOf(conn.db, c.name) # {}

\* The names of the stored Categories.
NamesOf(db) == {c.name : c \in db.categories}

\* The names created and not since removed, given those there were before
\* the last call: add_category and add_fact create the names they are
\* given, remove_category removes the one it is given.
NamesAfter(before, c) ==
  IF c.op = "add_category" THEN before \cup {c.category}
  ELSE IF c.op = "add_fact" THEN before \cup Range(c.categories)
  ELSE IF c.op = "remove_category" THEN before \ {c.category}
  ELSE before

\* C18: list_categories() returns each existing Category name exactly once
\* and no other name, and after any sequence of operations these are the
\* names created (by add_category, or by add_fact whether it succeeds or
\* not) and not since removed by remove_category.  The second part is
\* stated as the step that carries it from the empty store along every
\* sequence of calls.
C18_ListCategories ==
  LET l == ListCategories(conn)
  IN /\ l.kind = "ok"
     /\ Range(l.rows) = NamesOf(conn.db)
     /\ \A n \in Range(l.rows) : Count(l.rows, n) = 1
     /\ NamesOf(conn.db) = NamesAfter(NamesOf(prev.db), call)

Reads == {"search", "list_categories", "consult"}

Contains(s, p) ==
  \E i \in 0..(Len(s) - Len(p)) : SubSeq(s, i + 1, i + Len(p)) = p

\* res lists exactly the texts of the given Facts, each once.
Lists(rows, facts) ==
  /\ Range(rows) = {f.name : f \in facts}
  /\ Len(rows) = Cardinality(facts)

\* C20 (as claimed): search(p), for a pattern p with no wildcard character,
\* returns exactly the stored Fact texts that contain p as a case-sensitive
\* contiguous substring, each once, and an empty sequence without error
\* when none does.
C20_SearchCaseSensitive ==
  (call.op = "search") =>
    /\ res.kind = "ok"
    /\ Lists(res.rows, {f \in conn.db.facts : Contains(f.name, call.pattern)})

\* C20 (amended): search(p), for a pattern p with no wildcard character,
\* returns exactly the stored Fact texts that contain p as a contiguous
\* substring when ASCII letters are compared without regard to case, each
\* once, and an empty sequence without error when none does.
C20_SearchIgnoresCase ==
  (call.op = "search") =>
    /\ res.kind = "ok"
    /\ Lists(res.rows, {f \in conn.db.facts :
                          Contains(Lower(f.name), Lower(call.pattern))})

\* search has returned a text that contains the pattern only when case is
\* disregarded.
C20_Witness ==
  /\ call.op = "search"
  /\ res.kind = "ok"
  /\ \E t \in Range(res.rows) : ~ Contains(t, call.pattern)

Mutating == {"add_fact", "add_category", "remove_fact", "remove_category"}

\* C21: in the client-server variant, whenever a mutating operation
\* (add_fact, add_category, remove_fact, remove_category) returns, normally
\* or by raising, every statement it executed successfully has been
\* committed: nothing is left pending on the connection.
C21_NothingPending ==
  (adapter_class = "MySQLAdapter" /\ call.op \in Mutating) =>
    conn.committed = conn.db

\* C22: every cursor opened by a store operation is closed when that
\* operation returns, on every exit path, including when a statement
\* raises: no operation leaves an open cursor behind.
C22_NoCursorLeftOpen == res.cursors = 0

\* C23: a position below 1 is out of range: consult(c, 0) returns an empty
\* sequence and remove_fact(c, 0) removes no Entry, even when c has facts.
C23_BelowOneOutOfRange ==
  /\ (call.op = "consult" /\ call.position = 0) => res = Ok(<<>>)
  /\ (call.op = "remove_fact" /\ call.position = 0) =>
       conn.db.entries = prev.db.entries

\* C24: the line numbers shown agree with positional removal: for every
\* category c and 1 <= k <= len(consult(c)), consult(c, k) returns the k-th
\* element of consult(c), and a remove_fact(c, k) that succeeds removes
\* exactly the Entry of the fact consult(c) showed as line k.
C24_LinesAgree ==
  /\ \A c \in NamesOf(conn.db), plan \in Plans :
       LET shown == Consult(conn, c, None, plan)
       IN /\ shown.kind = "ok"
          /\ \A k \in 1..Len(shown.rows) :
               Consult(conn, c, k, Ordered) = Ok(<<shown.rows[k]>>)
  /\ RemoveFactDone =>
       \A plan \in Plans :
         LET shown == Consult(prev, call.category, None, plan).rows
         IN /\ call.position <= Len(shown)
            /\ ~ HasEntry(conn.db, shown[call.position], call.category)
            /\ Cardinality(prev.db.entries \ conn.db.entries) = 1

\* C26: opening a store on a backend whose schema and data already exist is
\* idempotent: construction succeeds (an already existing trigger is not
\* an error) and leaves every existing Category, Fact and Entry unchanged.
C26_ReopenIdempotent ==
  (call.op = "open") =>
    /\ res.kind = "ok"
    /\ SameRows(conn.db, prev.committed)
    /\ SameRows(conn.committed, prev.committed)

\* The LINE of a message "/23consult CATEGORY LINE" or "/23remove CATEGORY
\* LINE": what follows its second space.
LINE(content) ==
  LET rest == SubSeq(content, FirstSpace(content) + 1, Len(content))
  IN SubSeq(rest, FirstSpace(rest) + 1, Len(rest))

\* C25: for the chat commands "/23remove CATEGORY LINE" and "/23consult
\* CATEGORY LINE" the position passed to the adapter's remove_fact or
\* consult is the integer value of the whole decimal number LINE, for every
\* LINE of one or more digits.
C25_WholeLinePassed ==
  (call.op \in {"consult", "remove_fact"} /\ LINE(msg.content) # <<>>) =>
    call.position = int(LINE(msg.content))

\* The file has a section for the category of that name.
InFile(file, c) == \E i \in 1..Len(file) : file[i] = <<"[", c, "]">>

\* The fact texts of that section, in the order of its lines: line i of the
\* section without the number i, the full stop and the space before the
\* text.
Exported(file, c) ==
  LET h == CHOOSE i \in 1..Len(file) : file[i] = <<"[", c, "]">>
      e == CHOOSE i \in (h + 1)..Len(file) :
             file[i] = <<>> /\ \A j \in (h + 1)..(i - 1) : file[j] # <<>>
  IN [i \in 1..(e - h - 1) |->
        SubSeq(file[h + i], Len(str(i)) + 3, Len(file[h + i]))]

\* C27: uploading the file produced by DownloadCommand into an empty store
\* recreates, for every category in the file, exactly the fact texts that
\* were exported, for every number of facts per category (each line
\* "N. fact" is stored as "fact", for every N).
C27_RoundTrip ==
  (call.op = "upload" /\ SameRows(prev.db, EmptyDb)) =>
    \A c \in CategoryNames :
      InFile(msg.attachment, c) =>
        \A plan \in Plans :
          LET rows == Consult(conn, c, None, plan).rows
              texts == Exported(msg.attachment, c)
          IN Range(rows) = Range(texts) /\ Len(rows) = Len(texts)

\* The first 21:23 that is not before time t.
NextAmenAt(t) ==
  IF t % Day <= AmenAt THEN (t \div Day) * Day + AmenAt
  ELSE (t \div Day + 1) * Day + AmenAt

\* C28: the daily "Amen !" broadcast is scheduled for 21:23: whatever time
\* of day the bot is constructed at, the first broadcast happens at the
\* next 21:23 (never at start-up), each later one 24 hours after the one
\* before, and exactly one timer is pending at any time.
C28_AmenAt2123 ==
  /\ Cardinality(timers) = 1
  /\ \A i \in 1..Len(sent) : sent[i] = NextAmenAt(started) + (i - 1) * Day

====
